---- MODULE Spec2Model ----
(***************************************************************************)
(* Roof synthesis of building_tools (core/roof/roof_types.py): the gable   *)
(* rectangularity gate and the hip roof reconstruction (ridge vertex       *)
(* synthesis, crossing resolution, face reconstruction) as a state machine *)
(* over a mesh of vertices, edges and faces.                               *)
(*                                                                         *)
(* Coordinates are fixed-point integers: 1.0 is Unit (1000), so the        *)
(* tolerances of the code (1e-4, 0.01) are kept below / above one grid     *)
(* step as they are in the code.  Float arithmetic is taken as exact and   *)
(* stored at that resolution.                                              *)
(***************************************************************************)
EXTENDS Integers, Sequences, FiniteSets, TLC

\* ---------------------------------------------------------------- bounds
MaxSide == 2
MaxArm == 2
MaxTeeth == 2
MaxSub == 4
MaxHeight == 2
MaxThick == 1

\* fixed-point resolution: 1.0 = Unit
Unit == 10 * 100
\* remove_doubles(dist=0.0001) and remove_doubles(dist=0.01), in 1e-4 steps
RidgeMergeDist == 1
JoinMergeDist == 100
\* round(x, 4) of an area: areas are in Unit*Unit = 1e-6 steps, 1e-4 = 100 steps
AreaRoundStep == 100

\* ------------------------------------------------------------ arithmetic
Abs(a) == IF a < 0 THEN -a ELSE a
Min2(a, b) == IF a <= b THEN a ELSE b
Max2(a, b) == IF a >= b THEN a ELSE b
SetMin(S) == CHOOSE m \in S : \A x \in S : m <= x
SetMax(S) == CHOOSE m \in S : \A x \in S : m >= x
Range(s) == {s[k] : k \in DOMAIN s}

RECURSIVE SqrtIter(_, _, _)
SqrtIter(n, lo, hi) ==
    IF lo >= hi THEN lo
    ELSE LET mid == (lo + hi + 1) \div 2
         IN IF mid <= n \div mid THEN SqrtIter(n, mid, hi) ELSE SqrtIter(n, lo, mid - 1)
\* floor of the square root (Vector.length on the grid)
ISqrt(n) == IF n <= 0 THEN 0 ELSE SqrtIter(n, 1, Min2(n, 46340))

RECURSIVE SeqSum(_)
SeqSum(s) == IF s = <<>> THEN 0 ELSE Head(s) + SeqSum(Tail(s))

RECURSIVE SetToSeq(_)
\* a set of integers as the ascending sequence
SetToSeq(S) == IF S = {} THEN <<>> ELSE LET m == SetMin(S) IN <<m>> \o SetToSeq(S \ {m})

RECURSIVE Concat(_)
Concat(ss) == IF ss = <<>> THEN <<>> ELSE Head(ss) \o Concat(Tail(ss))

Reverse(s) == [k \in 1..Len(s) |-> s[Len(s) + 1 - k]]
Rotate(s, r) == [k \in 1..Len(s) |-> s[((k - 1 + r) % Len(s)) + 1]]

\* utils.equal(a, b): approximate equality, eps = 1e-4 (below one grid step)
equal(a, b) == Abs(a - b) * 10 <= 1

\* --------------------------------------------------------------- shapes
\* Footprint outlines, counter-clockwise, as <<x, y>> points.
Pt(x, y) == <<x, y>>

\* sub collinear vertices on the side from (0,0) to (w,0)
SubPts(w, sub) == [k \in 1..sub |-> Pt((w * k) \div (sub + 1), 0)]

RectPts(w, l, sub) ==
    <<Pt(0, 0)>> \o SubPts(w, sub) \o <<Pt(w, 0), Pt(w, l), Pt(0, l)>>

\* L: outer square of side a+b, horizontal arm of thickness a, vertical of b
LPts(a, b) ==
    <<Pt(0, 0), Pt(a + b, 0), Pt(a + b, a), Pt(b, a), Pt(b, a + b), Pt(0, a + b)>>

\* comb: a bar of thickness u over n teeth of width u (n = 1 is the T)
ToothPts(k, u) ==
    <<Pt((2 * k - 1) * u, u), Pt((2 * k - 1) * u, 0), Pt(2 * k * u, 0), Pt(2 * k * u, u)>>
CombPts(n, u) ==
    <<Pt(0, u)>> \o Concat([k \in 1..n |-> ToothPts(k, u)])
        \o <<Pt((2 * n + 1) * u, u), Pt((2 * n + 1) * u, 2 * u), Pt(0, 2 * u)>>

\* trapezoid with vertical sides of length s and 3s, 2s apart
TrapPts(s) == <<Pt(0, s), Pt(2 * s, 0), Pt(2 * s, 3 * s), Pt(0, 2 * s)>>

\* square standing on a corner
DiamondPts(s) == <<Pt(s, 0), Pt(2 * s, s), Pt(s, 2 * s), Pt(0, s)>>

\* the rectangle and the L as two faces: the rectangle cut at x = w/2, the L cut
\* at y = a; ShapeFaces gives the vertex cycles of the faces
Rect2Pts(w, l) ==
    <<Pt(0, 0), Pt(w \div 2, 0), Pt(w, 0), Pt(w, l), Pt(w \div 2, l), Pt(0, l)>>
L2Pts(a, b) == LPts(a, b) \o <<Pt(0, a)>>

ShapePts(sh) ==
    CASE sh.kind = "rect" -> RectPts(sh.w * Unit, sh.l * Unit, sh.sub)
      [] sh.kind = "L" -> LPts(sh.a * Unit, sh.b * Unit)
      [] sh.kind = "rect2" -> Rect2Pts(sh.w * Unit, sh.l * Unit)
      [] sh.kind = "L2" -> L2Pts(sh.a * Unit, sh.b * Unit)
      [] sh.kind = "comb" -> CombPts(sh.n, Unit)
      [] sh.kind = "trap" -> TrapPts(sh.s * Unit)
      [] sh.kind = "diamond" -> DiamondPts(sh.s * Unit)

RectShapes ==
    {[kind |-> "rect", w |-> w, l |-> l, sub |-> sub] :
        w \in 1..MaxSide, l \in 1..MaxSide, sub \in 0..MaxSub}
HipShapes ==
    {sh \in RectShapes : sh.l <= sh.w}
    \cup {[kind |-> "L", a |-> a, b |-> b] : a \in 1..MaxArm, b \in 1..MaxArm}
    \cup {[kind |-> "comb", n |-> n] : n \in 1..MaxTeeth}
\* the vertex cycles of the footprint faces, over the outline's point numbers
ShapeFaces(sh) ==
    CASE sh.kind = "rect2" -> {<<1, 2, 5, 6>>, <<2, 3, 4, 5>>}
      [] sh.kind = "L2" -> {<<1, 2, 3, 4, 7>>, <<7, 4, 5, 6>>}
      [] OTHER -> {[k \in 1..Len(ShapePts(sh)) |-> k]}
\* the inner edges of a footprint of several faces
ShapeInnerEdges(sh) ==
    CASE sh.kind = "rect2" -> <<<<2, 5>>>>
      [] sh.kind = "L2" -> <<<<7, 4>>>>
      [] OTHER -> <<>>

GableShapes ==
    {sh \in RectShapes : sh.sub <= 1}
    \cup {[kind |-> "L", a |-> a, b |-> b] : a \in 1..MaxArm, b \in 1..MaxArm}
    \cup {[kind |-> k, w |-> w, l |-> l] : k \in {"rect2"}, w \in 1..MaxSide, l \in 1..MaxSide}
    \cup {[kind |-> k, a |-> a, b |-> b] : k \in {"L2"}, a \in 1..MaxArm, b \in 1..MaxArm}
    \cup {[kind |-> "trap", s |-> s] : s \in 1..MaxSide}
    \cup {[kind |-> "diamond", s |-> s] : s \in 1..MaxSide}

\* ------------------------------------------------------------ skeletonize
\* utils.skeletonize(points, []): the straight skeleton as arcs
\* [source, height, sinks].  Collinear outline points get no arc.
Arc(src, h, sinks) == [source |-> src, height |-> h, sinks |-> sinks]

RectArcs(w, l) ==
    IF w = l
    THEN <<Arc(Pt(w \div 2, w \div 2), w \div 2,
               <<Pt(w, l), Pt(0, l), Pt(0, 0), Pt(w, 0)>>)>>
    ELSE <<Arc(Pt(l \div 2, l \div 2), l \div 2, <<Pt(0, l), Pt(0, 0)>>),
           Arc(Pt(w - l \div 2, l \div 2), l \div 2,
               <<Pt(w, l), Pt(w, 0), Pt(l \div 2, l \div 2)>>)>>

\* arms a <= b (the mirror image covers a > b)
LArcs(a0, b0) ==
    LET a == Min2(a0, b0)
        b == Max2(a0, b0)
        flip(p) == IF a0 <= b0 THEN p ELSE Pt(p[2], p[1])
        s == a + b
        P1 == Pt(s - a \div 2, a \div 2)
        P2 == Pt(b - a \div 2, a \div 2)
        P3 == Pt(b \div 2, b \div 2)
        P4 == Pt(b \div 2, s - b \div 2)
        f(arc) == Arc(flip(arc.source), arc.height,
                      [k \in 1..Len(arc.sinks) |-> flip(arc.sinks[k])])
    IN <<f(Arc(P1, a \div 2, <<Pt(s, 0), Pt(s, a)>>)),
         f(Arc(P2, a \div 2, <<Pt(b, a), P1>>)),
         f(Arc(P3, b \div 2, <<Pt(0, 0), P2>>)),
         f(Arc(P4, b \div 2, <<Pt(0, s), Pt(b, s), P3>>))>>

ToothArcs(k, u) ==
    LET x == (2 * k - 1) * u + u \div 2
    IN <<Arc(Pt(x, u \div 2), u \div 2, <<Pt((2 * k - 1) * u, 0), Pt(2 * k * u, 0)>>),
         Arc(Pt(x, u + u \div 2), u \div 2,
             <<Pt((2 * k - 1) * u, u), Pt(2 * k * u, u), Pt(x, u \div 2)>>)>>
CombArcs(n, u) ==
    <<Arc(Pt(u \div 2, u + u \div 2), u \div 2, <<Pt(0, u), Pt(0, 2 * u)>>)>>
        \o Concat([k \in 1..n |-> ToothArcs(k, u)])
        \o <<Arc(Pt((2 * n + 1) * u - u \div 2, u + u \div 2), u \div 2,
                 <<Pt((2 * n + 1) * u, u), Pt((2 * n + 1) * u, 2 * u),
                   Pt(u \div 2, u + u \div 2)>>)>>

skeletonize(sh) ==
    CASE sh.kind = "rect" -> RectArcs(sh.w * Unit, sh.l * Unit)
      [] sh.kind = "L" -> LArcs(sh.a * Unit, sh.b * Unit)
      [] sh.kind = "comb" -> CombArcs(sh.n, Unit)

\* the listings of the arcs the solver's contract allows: any rotation of the
\* event order, forwards or backwards
ArcOrders(arcs) ==
    {Rotate(arcs, r) : r \in 0..(Len(arcs) - 1)}
    \cup {Rotate(Reverse(arcs), r) : r \in 0..(Len(arcs) - 1)}

\* ------------------------------------------------------------------ state
VARIABLES
    prop,            \* RoofProperty: type, height, thickness, orient, and the footprint
    pc,              \* position in create_roof
    verts,           \* bm.verts: sequence of [x, y, z, valid]
    edges,           \* bm.edges: sequence of [v1, v2, valid]
    faces,           \* bm.faces: set of vertex cycles (sequences of vertex ids)
    sel_faces,       \* the faces argument: the footprint faces
    skeleton,        \* the arcs returned by skeletonize
    points,          \* the outline handed to skeletonize
    original_edges,  \* face.edges of the footprint face
    skeleton_edges,  \* sequence of edge ids
    skeleton_verts,  \* sequence of vertex ids
    new_verts,       \* split vertices of join_intersecting_verts_and_edges
    vsource,         \* the source vertex of the arc being processed
    idx,             \* loop counters: arc, sink, vert, edge, original edge
    gable,           \* create_gable_roof: the gate's result, edges, boundary_edges, hang_edges
    made,            \* history: the make_vert calls, [loc, v, as]
    calls,           \* history: the face-creation calls of create_hiproof_faces
    error            \* the exception that ended the run, or "none"

vars == <<prop, pc, verts, edges, faces, sel_faces, skeleton, points, original_edges,
          skeleton_edges, skeleton_verts, new_verts, vsource, idx, gable, made, calls,
          error>>

mesh == <<verts, edges, faces>>
hipvars == <<skeleton, points, original_edges, skeleton_edges, skeleton_verts,
             new_verts, vsource, idx, made, calls>>


\* ------------------------------------------------------------ mesh kernel
Co(x, y, z) == [x |-> x, y |-> y, z |-> z, valid |-> TRUE]
Ed(a, b) == [v1 |-> a, v2 |-> b, valid |-> TRUE]

ValidVerts(vs) == {v \in DOMAIN vs : vs[v].valid}
ValidEdges(es) == {e \in DOMAIN es : es[e].valid}
EdgeVerts(es, e) == {es[e].v1, es[e].v2}
OtherVert(es, e, v) == IF es[e].v1 = v THEN es[e].v2 ELSE es[e].v1

DistSq(a, b) == (a.x - b.x) * (a.x - b.x) + (a.y - b.y) * (a.y - b.y)
                    + (a.z - b.z) * (a.z - b.z)
\* Vector.length, to the grid
Length(a, b) == ISqrt(DistSq(a, b))
\* within dist (given in 1e-4 steps) of each other
WithinDist(a, b, dist) == DistSq(a, b) <= (dist * dist) \div 100

\* v.link_edges: the edges at v, in creation order
LinkEdges(es, v) == SetToSeq({e \in ValidEdges(es) : v \in EdgeVerts(es, e)})

\* bm.edges.get([a, b])
EdgeBetween(es, a, b) ==
    LET S == {e \in ValidEdges(es) : EdgeVerts(es, e) = {a, b}}
    IN IF S = {} THEN 0 ELSE SetMin(S)

\* the vertex cycle from its least vertex, towards the lesser neighbour
Canon(c) ==
    LET n == Len(c)
        k == CHOOSE j \in 1..n : \A i \in 1..n : c[j] <= c[i]
        fwd == [i \in 1..n |-> c[((k - 1 + (i - 1)) % n) + 1]]
        bwd == [i \in 1..n |-> c[((k - 1 + (n - 1) * (i - 1)) % n) + 1]]
    IN IF n < 3 \/ fwd[2] <= bwd[2] THEN fwd ELSE bwd

\* the vertex cycle of a face as the set of its (unordered) sides
FaceSides(f) == {{f[k], f[(k % Len(f)) + 1]} : k \in 1..Len(f)}

\* bmesh.ops.remove_doubles(bm, verts=bm.verts, dist): every vertex within dist
\* of an earlier surviving vertex is welded into it; collapsed edges and faces
\* and double edges go.
RECURSIVE MergeUpTo(_, _, _)
MergeUpTo(vs, dist, k) ==
    IF k = 0 THEN <<>>
    ELSE LET rep == MergeUpTo(vs, dist, k - 1)
             C == {u \in 1..(k - 1) :
                     vs[u].valid /\ rep[u] = u /\ WithinDist(vs[u], vs[k], dist)}
         IN Append(rep, IF ~vs[k].valid \/ C = {} THEN k ELSE SetMin(C))
MergeTarget(vs, dist) == MergeUpTo(vs, dist, Len(vs))

RECURSIVE DropRepeats(_)
DropRepeats(s) ==
    IF Len(s) <= 1 THEN s
    ELSE IF s[1] = s[2] THEN DropRepeats(Tail(s))
         ELSE <<s[1]>> \o DropRepeats(Tail(s))
WeldFace(f, rep) ==
    LET g == DropRepeats([k \in 1..Len(f) |-> rep[f[k]]])
    IN IF Len(g) > 1 /\ g[1] = g[Len(g)] THEN SubSeq(g, 1, Len(g) - 1) ELSE g

RemoveDoubles(vs, es, fs, dist) ==
    LET rep == MergeTarget(vs, dist)
        vs2 == [v \in DOMAIN vs |-> [vs[v] EXCEPT !.valid = vs[v].valid /\ rep[v] = v]]
        es1 == [e \in DOMAIN es |-> [es[e] EXCEPT !.v1 = rep[es[e].v1], !.v2 = rep[es[e].v2]]]
        es2 == [e \in DOMAIN es |->
                  [es1[e] EXCEPT !.valid =
                      es1[e].valid /\ es1[e].v1 # es1[e].v2
                      /\ ~\E d \in 1..(e - 1) :
                            es1[d].valid /\ es1[d].v1 # es1[d].v2
                            /\ EdgeVerts(es1, d) = EdgeVerts(es1, e)]]
        fs2 == {Canon(g) : g \in {h \in {WeldFace(f, rep) : f \in fs} :
                                    Cardinality(Range(h)) >= 3}}
    IN [verts |-> vs2, edges |-> es2, faces |-> fs2]

\* make_vert / bmesh.ops.create_vert
MakeVert(vs, co) == Append(vs, co)

\* bmesh.ops.contextual_create(bm, geom=[a, b]).get("edges"): the edge between two
\* vertices, created when there is none
CreateEdge(es, a, b) ==
    LET e == EdgeBetween(es, a, b)
    IN IF e # 0 THEN [edges |-> es, edge |-> e]
       ELSE [edges |-> Append(es, Ed(a, b)), edge |-> Len(es) + 1]

\* bmesh.utils.edge_split(e, e.verts[0], fac), fac = num / den: the new vertex
\* is fac of the way from v1 to v2; e keeps v2, the new edge keeps v1
Lerp(a, b, num, den) == a + ((b - a) * num + den \div 2) \div den
EdgeSplit(vs, es, e, num, den) ==
    LET a == vs[es[e].v1]
        b == vs[es[e].v2]
        nv == Len(vs) + 1
        co == Co(Lerp(a.x, b.x, num, den), Lerp(a.y, b.y, num, den),
                 Lerp(a.z, b.z, num, den))
    IN [verts |-> Append(vs, co),
        edges |-> Append([es EXCEPT ![e].v1 = nv], Ed(es[e].v1, nv)),
        vert |-> nv]

\* mathutils.geometry.intersect_line_line_2d(p, p, a, b) is not None: the point
\* p is on the segment from a to b, in the x-y plane
OnSegment2D(p, a, b) ==
    IF a.x = b.x /\ a.y = b.y THEN p.x = a.x /\ p.y = a.y
    ELSE /\ (b.x - a.x) * (p.y - a.y) - (b.y - a.y) * (p.x - a.x) = 0
         /\ LET d == (p.x - a.x) * (b.x - a.x) + (p.y - a.y) * (b.y - a.y)
            IN 0 <= d /\ d <= (b.x - a.x) * (b.x - a.x) + (b.y - a.y) * (b.y - a.y)

\* ------------------------------------------------------------------- Init
\* The mesh the roof is built on: the footprint ring (vertices 1..n, its sides
\* the edges 1..n, in loop order) at z = thickness, over the wall ring below it
\* at z = 0.  For the hip roof this is the top face create_flat_roof returns.
InitVerts(sh, fz) ==
    LET pts == ShapePts(sh)
        n == Len(pts)
    IN [k \in 1..(2 * n) |->
          IF k <= n THEN Co(pts[k][1], pts[k][2], fz)
          ELSE Co(pts[k - n][1], pts[k - n][2], 0)]
InitEdges(sh) ==
    LET n == Len(ShapePts(sh))
        inner == ShapeInnerEdges(sh)
    IN [k \in 1..(3 * n) |->
          IF k <= n THEN Ed(k, (k % n) + 1)
          ELSE IF k <= 2 * n THEN Ed(k, k - n)
          ELSE Ed(k - n, ((k - 2 * n) % n) + 1 + n)]
       \o [k \in 1..Len(inner) |-> Ed(inner[k][1], inner[k][2])]

\* the wall faces under the sides of the footprint
WallFaces(sh) ==
    LET n == Len(ShapePts(sh))
    IN {Canon(<<k, (k % n) + 1, (k % n) + 1 + n, k + n>>) : k \in 1..n}
TopFaces(sh) == {Canon(f) : f \in ShapeFaces(sh)}

Props ==
    {[type |-> "HIP", height |-> h * Unit, thickness |-> t * Unit, outset |-> Unit \div 2,
      orient |-> "HORIZONTAL", shape |-> sh] :
        h \in 1..MaxHeight, t \in 1..MaxThick, sh \in HipShapes}
    \cup
    {[type |-> "GABLE", height |-> h * Unit, thickness |-> t * Unit, outset |-> Unit \div 2,
      orient |-> o, shape |-> sh] :
        h \in 1..MaxHeight, t \in 1..MaxThick, sh \in GableShapes,
        o \in {"HORIZONTAL", "VERTICAL"}}

Init ==
    /\ prop \in Props
    /\ pc = "create_roof"
    /\ verts = InitVerts(prop.shape, prop.thickness)
    /\ edges = InitEdges(prop.shape)
    /\ faces = TopFaces(prop.shape) \cup WallFaces(prop.shape)
    /\ sel_faces = TopFaces(prop.shape)
    /\ skeleton = <<>>
    /\ points = <<>>
    /\ original_edges = <<>>
    /\ skeleton_edges = <<>>
    /\ skeleton_verts = <<>>
    /\ new_verts = <<>>
    /\ vsource = 0
    /\ idx = [a |-> 1, s |-> 1, v |-> 1, e |-> 1, o |-> 1]
    /\ gable = [rect |-> FALSE, edges |-> <<>>, boundary_edges |-> <<>>, hang_edges |-> <<>>]
    /\ made = <<>>
    /\ calls = <<>>
    /\ error = "none"

\* -------------------------------------------------------- create_hip_roof
\* sort_verts_by_loops(face): from the loop whose vertex has the greatest
\* (x, y), along link_loop_prev, len(face.loops) times
LexGreater(a, b) == a.x > b.x \/ (a.x = b.x /\ a.y > b.y)
\* the walk along link_loop_next instead of link_loop_prev
sort_verts_by_loops_next(face) ==
    LET n == Len(face)
        start == CHOOSE k \in 1..n :
                    /\ \A j \in 1..n : ~LexGreater(verts[face[j]], verts[face[k]])
                    /\ \A j \in 1..(k - 1) : LexGreater(verts[face[k]], verts[face[j]])
    IN [k \in 1..n |-> face[((start - 1 + (k - 1)) % n) + 1]]
sort_verts_by_loops(face) ==
    LET n == Len(face)
        start == CHOOSE k \in 1..n :
                    /\ \A j \in 1..n : ~LexGreater(verts[face[j]], verts[face[k]])
                    /\ \A j \in 1..(k - 1) : LexGreater(verts[face[k]], verts[face[j]])
    IN [k \in 1..n |-> face[((start - 1 + (n - 1) * (k - 1)) % n) + 1]]

\* face.calc_center_median().z
MedianZ(face) == SeqSum([k \in 1..Len(face) |-> verts[face[k]].z]) \div Len(face)

MaxArcHeight(sk) == SetMax({sk[k].height : k \in DOMAIN sk})
\* the height taken without the scale
ScaleHeightUnscaled(h) == h
\* height_scale * h, with height_scale = prop.height / max(arc.height)
ScaleHeight(h) == (prop.height * h) \div MaxArcHeight(skeleton)

\* create_hip_roof up to the call of create_hiproof_verts_and_edges
CreateHipRoof ==
    /\ pc = "create_roof"
    /\ prop.type = "HIP"
    /\ LET face == CHOOSE f \in sel_faces : TRUE
           sorted == sort_verts_by_loops(face)
       IN /\ original_edges' = [k \in 1..Len(face) |-> k]
          /\ points' = [k \in 1..Len(sorted) |-> Pt(verts[sorted[k]].x, verts[sorted[k]].y)]
          /\ skeleton' \in ArcOrders(skeletonize(prop.shape))
          /\ faces' = faces \ sel_faces
    /\ idx' = [idx EXCEPT !.a = 1, !.s = 1]
    /\ pc' = "arc_source"
    /\ UNCHANGED <<prop, verts, edges, sel_faces, skeleton_edges, skeleton_verts,
                   new_verts, vsource, gable, made, calls, error>>

\* the lowest of the vertices at loc instead of the highest
vert_at_loc_lowest(loc, vs) ==
    LET results == {v \in ValidVerts(vs) : equal(vs[v].x, loc[1]) /\ equal(vs[v].y, loc[2])}
    IN IF results = {} THEN 0
       ELSE SetMax({v \in results : \A u \in results : vs[v].z <= vs[u].z})
\* vert_at_loc(loc, verts): of the vertices at loc (x, y), the highest
vert_at_loc(loc, vs) ==
    LET results == {v \in ValidVerts(vs) : equal(vs[v].x, loc[1]) /\ equal(vs[v].y, loc[2])}
    IN IF results = {} THEN 0
       ELSE SetMin({v \in results : \A u \in results : vs[v].z >= vs[u].z})

\* [arc.height for arc in skeleton if arc.source == source][-1]
SourceHeight(sk, source) ==
    sk[SetMax({k \in DOMAIN sk : sk[k].source = source})].height
\* min([arc.height for arc in skeleton if sink in arc.sinks])
SinkHeight(sk, sink) ==
    SetMin({sk[k].height : k \in {j \in DOMAIN sk : sink \in Range(sk[j].sinks)}})

\* median.z, the level the ridge heights are added to
FootprintZ == MedianZ(CHOOSE f \in sel_faces : TRUE)

\* create_hiproof_verts_and_edges, the head of the arc loop: the source vertex
ArcSource ==
    /\ pc = "arc_source"
    /\ LET arc == skeleton[idx.a]
           found == vert_at_loc(arc.source, verts)
           ht == ScaleHeight(SourceHeight(skeleton, arc.source))
           nv == Len(verts) + 1
       IN IF found = 0
          THEN /\ verts' = MakeVert(verts, Co(arc.source[1], arc.source[2], FootprintZ + ht))
               /\ vsource' = nv
               /\ skeleton_verts' = Append(skeleton_verts, nv)
               /\ made' = Append(made, [loc |-> arc.source, v |-> nv, as |-> "source"])
          ELSE /\ vsource' = found
               /\ UNCHANGED <<verts, skeleton_verts, made>>
    /\ idx' = [idx EXCEPT !.s = 1]
    /\ pc' = "arc_sink"
    /\ UNCHANGED <<prop, edges, faces, sel_faces, skeleton, points, original_edges,
                   skeleton_edges, new_verts, gable, calls, error>>

\* the sink loop: the sink vertex and the skeleton edge to it
ArcSink ==
    /\ pc = "arc_sink"
    /\ idx.s <= Len(skeleton[idx.a].sinks)
    /\ LET sink == skeleton[idx.a].sinks[idx.s]
           found == vert_at_loc(sink, verts)
           ht == ScaleHeight(SinkHeight(skeleton, sink))
           vs == IF found = 0 THEN Len(verts) + 1 ELSE found
       IN /\ IF found = 0
             THEN /\ verts' = MakeVert(verts, Co(sink[1], sink[2], FootprintZ + ht))
                  /\ made' = Append(made, [loc |-> sink, v |-> vs, as |-> "sink"])
             ELSE UNCHANGED <<verts, made>>
          /\ skeleton_verts' = Append(skeleton_verts, vs)
          /\ IF vs # vsource
             THEN \E made_edge \in {CreateEdge(edges, vsource, vs)} :
                     /\ edges' = made_edge.edges
                     /\ skeleton_edges' = Append(skeleton_edges, made_edge.edge)
             ELSE UNCHANGED <<edges, skeleton_edges>>
    /\ idx' = [idx EXCEPT !.s = idx.s + 1]
    /\ UNCHANGED <<prop, pc, faces, sel_faces, skeleton, points, original_edges,
                   new_verts, vsource, gable, calls, error>>

\* the end of one arc: the next arc, or the end of the arc loop
ArcNext ==
    /\ pc = "arc_sink"
    /\ idx.s > Len(skeleton[idx.a].sinks)
    /\ IF idx.a < Len(skeleton)
       THEN /\ idx' = [idx EXCEPT !.a = idx.a + 1, !.s = 1]
            /\ pc' = "arc_source"
       ELSE /\ idx' = idx
            /\ pc' = "ridge_merge"
    /\ UNCHANGED <<prop, mesh, sel_faces, skeleton, points, original_edges, skeleton_edges,
                   skeleton_verts, new_verts, vsource, gable, made, calls, error>>

SeqVertsOfEdges(es, seq) == UNION {EdgeVerts(es, seq[k]) : k \in DOMAIN seq}
InSeq(x, seq) == x \in Range(seq)
Filter(seq, S) == SelectSeq(seq, LAMBDA x : x \in S)

\* remove_doubles(dist=0.0001), then the ridge vertices: those of skeleton_verts
\* on a skeleton edge and on no original edge
RidgeMerge ==
    /\ pc = "ridge_merge"
    /\ \E r \in {RemoveDoubles(verts, edges, faces, RidgeMergeDist)} :
          /\ verts' = r.verts
          /\ edges' = r.edges
          /\ faces' = r.faces
          /\ IF \E k \in DOMAIN skeleton_edges : ~r.edges[skeleton_edges[k]].valid
             THEN /\ error' = "ReferenceError"
                  /\ pc' = "failed"
                  /\ UNCHANGED <<skeleton_verts, idx>>
             ELSE /\ skeleton_verts' =
                        Filter(skeleton_verts,
                               SeqVertsOfEdges(r.edges, skeleton_edges)
                                   \ SeqVertsOfEdges(r.edges, original_edges))
                  /\ idx' = [idx EXCEPT !.v = 1, !.e = 1]
                  /\ pc' = "join"
                  /\ error' = error
    /\ UNCHANGED <<prop, sel_faces, skeleton, points, original_edges, skeleton_edges,
                   new_verts, vsource, gable, made, calls>>

\* join_intersecting_verts_and_edges, one pass of the inner loop: vertex v
\* against edge e
JoinStep ==
    /\ pc = "join"
    /\ idx.v <= Len(skeleton_verts)
    /\ idx.e <= Len(skeleton_edges)
    /\ LET v == skeleton_verts[idx.v]
           e == skeleton_edges[idx.e]
           v1 == verts[edges[e].v1]
           v2 == verts[edges[e].v2]
       IN IF v \notin EdgeVerts(edges, e) /\ OnSegment2D(verts[v], v1, v2)
          THEN \E sp \in {EdgeSplit(verts, edges, e, Length(v1, verts[v]), Length(v1, v2))} :
                  /\ verts' = sp.verts
                  /\ edges' = sp.edges
                  /\ new_verts' = Append(new_verts, sp.vert)
          ELSE UNCHANGED <<verts, edges, new_verts>>
    /\ idx' = IF idx.e < Len(skeleton_edges)
              THEN [idx EXCEPT !.e = idx.e + 1]
              ELSE [idx EXCEPT !.v = idx.v + 1, !.e = 1]
    /\ UNCHANGED <<prop, pc, faces, sel_faces, skeleton, points, original_edges,
                   skeleton_edges, skeleton_verts, vsource, gable, made, calls, error>>

\* the end of join_intersecting_verts_and_edges (remove_doubles(dist=0.01)) and
\* of create_hiproof_verts_and_edges: the skeleton edges are the edges at the
\* ridge vertices
JoinMerge ==
    /\ pc = "join"
    /\ idx.v > Len(skeleton_verts) \/ Len(skeleton_edges) = 0
    /\ \E r \in {RemoveDoubles(verts, edges, faces, JoinMergeDist)} :
          /\ verts' = r.verts
          /\ edges' = r.edges
          /\ faces' = r.faces
          /\ new_verts' = Filter(new_verts, ValidVerts(r.verts))
          /\ \E sv \in {Filter(skeleton_verts, ValidVerts(r.verts))
                            \o Filter(new_verts, ValidVerts(r.verts))} :
                /\ skeleton_verts' = sv
                /\ skeleton_edges' =
                      SetToSeq(UNION {Range(LinkEdges(r.edges, sv[k])) : k \in DOMAIN sv})
    /\ idx' = [idx EXCEPT !.o = 1]
    /\ pc' = "faces"
    /\ UNCHANGED <<prop, sel_faces, skeleton, points, original_edges, vsource, gable,
                   made, calls, error>>

\* ---------------------------------------------------- contextual_create
\* bmesh.ops.contextual_create(bm, geom=<edges>): closed loops of the edges are
\* filled (edgeloop_fill); otherwise one open chain is closed by an edge between
\* its ends and two open chains are bridged by two edges (edgenet_prepare), and
\* the loop this makes is filled.  A face that exists is not made again.
GeomVerts(es, G) == UNION {EdgeVerts(es, e) : e \in G}
Deg(es, G, v) == Cardinality({e \in G : v \in EdgeVerts(es, e)})

RECURSIVE PathFrom(_, _, _, _)
\* the vertices met from v along the edges of G not yet walked
PathFrom(es, G, v, walked) ==
    LET nxt == {e \in G \ walked : v \in EdgeVerts(es, e)}
    IN IF nxt = {} THEN <<v>>
       ELSE LET e == SetMin(nxt)
            IN <<v>> \o PathFrom(es, G, OtherVert(es, e, v), walked \cup {e})

\* G is one closed loop: every vertex on two of its edges, and connected
IsClosedLoop(es, G) ==
    /\ Cardinality(G) > 2
    /\ \A v \in GeomVerts(es, G) : Deg(es, G, v) = 2
    /\ LET p == PathFrom(es, G, SetMin(GeomVerts(es, G)), {})
       IN Len(p) = Cardinality(G) + 1

RECURSIVE LoopsOf(_, _)
\* the vertex cycles of a set of edges whose vertices all have degree 2
LoopsOf(es, G) ==
    IF G = {} THEN {}
    ELSE LET p == PathFrom(es, G, SetMin(GeomVerts(es, G)), {})
             c == SubSeq(p, 1, Len(p) - 1)
             used == {e \in G : EdgeVerts(es, e) \subseteq Range(c)}
         IN (IF Len(c) >= 3 THEN {Canon(c)} ELSE {}) \cup LoopsOf(es, G \ used)

FillLoops(es, fs, G) ==
    IF G # {} /\ \A v \in GeomVerts(es, G) : Deg(es, G, v) = 2
    THEN fs \cup LoopsOf(es, G) ELSE fs

\* edgenet_prepare: the first two open chains of geom, in its order; a chain is
\* the vertex path from the open end of its first edge
ChainStarts(es, geom) ==
    LET G == Range(geom)
    IN SelectSeq(geom, LAMBDA e : \E v \in EdgeVerts(es, e) : Deg(es, G, v) = 1)
ChainOf(es, G, e) ==
    IF Deg(es, G, es[e].v1) = 1 /\ Deg(es, G, es[e].v2) = 1 THEN <<es[e].v1, es[e].v2>>
    ELSE IF Deg(es, G, es[e].v1) = 1 THEN PathFrom(es, G, es[e].v1, {})
    ELSE PathFrom(es, G, es[e].v2, {})

\* the bow-tie test of edgenet_prepare: the normals of (v1, v2, v4) and
\* (v1, v4, v3) point apart; only the sign matters, taken at a tenth of a unit
Sc(c) == c \div 100
Cross(a, b) == [x |-> a.y * b.z - a.z * b.y, y |-> a.z * b.x - a.x * b.z,
                z |-> a.x * b.y - a.y * b.x]
Sub(a, b) == [x |-> Sc(a.x) - Sc(b.x), y |-> Sc(a.y) - Sc(b.y), z |-> Sc(a.z) - Sc(b.z)]
Dot(a, b) == a.x * b.x + a.y * b.y + a.z * b.z
BowTie(vs, v1, v2, v3, v4) ==
    Dot(Cross(Sub(vs[v1], vs[v2]), Sub(vs[v1], vs[v4])),
        Cross(Sub(vs[v1], vs[v4]), Sub(vs[v1], vs[v3]))) < 0

BridgeOut(first, second, G) ==
    [edges |-> second.edges, geom |-> G \cup {first.edge, second.edge}]
BridgeSecond(first, G, v2, v4) == BridgeOut(first, CreateEdge(first.edges, v2, v4), G)
\* two chains (v1 .. v2) and (a .. b): the edges v1-a and v2-b, or v1-b and v2-a
BridgeChains(vs, es, G, v1, v2, a, b) ==
    IF BowTie(vs, v1, v2, a, b)
    THEN BridgeSecond(CreateEdge(es, v1, b), G, v2, a)
    ELSE BridgeSecond(CreateEdge(es, v1, a), G, v2, b)
CloseOut(closing, G) == [edges |-> closing.edges, geom |-> G \cup {closing.edge}]
EdgenetRest(vs, es, G, c1, c2) ==
    IF c2 # <<>> THEN BridgeChains(vs, es, G, c1[1], c1[Len(c1)], c2[1], c2[Len(c2)])
    ELSE IF Len(c1) > 2 THEN CloseOut(CreateEdge(es, c1[1], c1[Len(c1)]), G)
    ELSE [edges |-> es, geom |-> G]
SecondChain(es, G, rest) == IF rest = <<>> THEN <<>> ELSE ChainOf(es, G, rest[1])
EdgenetChains(vs, es, G, starts, c1) ==
    EdgenetRest(vs, es, G, c1,
                SecondChain(es, G, SelectSeq(starts,
                                             LAMBDA e : ~(EdgeVerts(es, e) \subseteq Range(c1)))))
EdgenetStarts(vs, es, G, starts) ==
    IF \E v \in GeomVerts(es, G) : Deg(es, G, v) > 2 \/ starts = <<>>
    THEN [edges |-> es, geom |-> G]
    ELSE EdgenetChains(vs, es, G, starts, ChainOf(es, G, starts[1]))
EdgenetPrepare(vs, es, geom) == EdgenetStarts(vs, es, Range(geom), ChainStarts(es, geom))

FillPrepared(fs, prep) == [edges |-> prep.edges, faces |-> FillLoops(prep.edges, fs, prep.geom)]
ContextualCreate(vs, es, fs, geom) ==
    IF Cardinality(Range(geom)) > 2
          /\ \A v \in GeomVerts(es, Range(geom)) : Deg(es, Range(geom), v) = 2
    THEN [edges |-> es, faces |-> fs \cup LoopsOf(es, Range(geom))]
    ELSE FillPrepared(fs, EdgenetPrepare(vs, es, geom))

\* ---------------------------------------------------- create_hiproof_faces
\* the edges at the first vertex only
get_linked_edges_first(vseq, filter_edges) ==
    IF vseq = <<>> THEN <<>> ELSE Filter(LinkEdges(edges, vseq[1]), filter_edges)
\* get_linked_edges(verts, filter_edges)
get_linked_edges(vseq, filter_edges) ==
    Concat([k \in 1..Len(vseq) |-> Filter(LinkEdges(edges, vseq[k]), filter_edges)])

\* calc_edge_median(e), twice
Median2(e) ==
    LET a == verts[edges[e].v1]
        b == verts[edges[e].v2]
    IN [x |-> a.x + b.x, y |-> a.y + b.y, z |-> a.z + b.z]

\* find_closest_pair_edges(edges_a, edges_b): the pairs that can come first
\* in sorted(pairs, key=length_func); none when there is no pair
find_closest_pair_edges(edges_a, edges_b) ==
    LET pairs == {<<e1, e2>> : e1 \in Range(edges_a), e2 \in Range(edges_b)}
        len(p) == DistSq(Median2(p[1]), Median2(p[2]))
    IN {p \in pairs : \A q \in pairs : len(p) <= len(q)}

PairVerts(p) == EdgeVerts(edges, p[1]) \cup EdgeVerts(edges, p[2])
TwoOf(S) == CHOOSE p \in S \X S : p[1] < p[2]

\* what one pass does: a face-creation call with its geometry, a skip, nothing,
\* or an exception
Outcome(kind, geom, sides, fallback) ==
    [kind |-> kind, geom |-> geom, sides |-> sides, fallback |-> fallback]

\* the third level of the search: the heptagon, or nothing
FaceLevel3(ed, linked, pair, next_edges, opp, fb) ==
    LET v1 == TwoOf(opp)[1]
        v2 == TwoOf(opp)[2]
        nxt == next_edges \ (Range(linked) \cup {pair[1], pair[2]})
        pairs2 == find_closest_pair_edges(get_linked_edges(<<v1>>, nxt),
                                          get_linked_edges(<<v2>>, nxt))
    IN IF pairs2 = {} THEN {Outcome("IndexError", <<>>, 0, fb)}
       ELSE {IF Cardinality(PairVerts(p2) \ opp) = 1
             THEN Outcome("face", <<ed>> \o linked \o <<pair[1], pair[2], p2[1], p2[2]>>, 7, fb)
             ELSE Outcome("none", <<>>, 0, fb) : p2 \in pairs2}

\* the second level: the pentagon, the hexagon, or the third level
FaceLevel2(ed, linked, opp, fb) ==
    LET v1 == TwoOf(opp)[1]
        v2 == TwoOf(opp)[2]
        nxt == Range(skeleton_edges) \ Range(linked)
        pairs == find_closest_pair_edges(get_linked_edges(<<v1>>, nxt),
                                         get_linked_edges(<<v2>>, nxt))
        level(pair) ==
            LET opp2 == PairVerts(pair) \ opp
                edge == EdgeBetween(edges, TwoOf(opp2)[1], TwoOf(opp2)[2])
            IN IF Cardinality(opp2) = 1
               THEN {Outcome("face", <<ed>> \o linked \o <<pair[1], pair[2]>>, 5, fb)}
               ELSE IF Cardinality(opp2) # 2 THEN {Outcome("TypeError", <<>>, 0, fb)}
               ELSE IF edge # 0
               THEN {Outcome("face", <<pair[1], pair[2]>> \o linked \o <<ed, edge>>, 6, fb)}
               ELSE FaceLevel3(ed, linked, pair, nxt, opp2, fb)
    IN IF pairs = {} THEN {Outcome("IndexError", <<>>, 0, fb)}
       ELSE UNION {level(pair) : pair \in pairs}

\* one pass of the loop over original_edges: what it does for edge ed
FaceOutcomes(ed) ==
    LET ev == <<edges[ed].v1, edges[ed].v2>>
        direct == get_linked_edges(ev, Range(skeleton_edges))
        fb == Len(direct) = 0
        linked_original == get_linked_edges(ev, Range(original_edges))
        others == Concat([k \in 1..Len(linked_original) |->
                            SelectSeq(<<edges[linked_original[k]].v1,
                                        edges[linked_original[k]].v2>>,
                                      LAMBDA v : v \notin Range(ev))])
        vs == IF fb THEN others ELSE ev
        linked == IF fb THEN get_linked_edges(vs, Range(skeleton_edges)) ELSE direct
        opp == GeomVerts(edges, Range(linked)) \ Range(vs)
        edge == EdgeBetween(edges, TwoOf(opp)[1], TwoOf(opp)[2])
    IN IF Len(direct) = 1 THEN {Outcome("skip", <<>>, 0, FALSE)}
       ELSE IF Cardinality(opp) = 1
       THEN {Outcome("face", linked \o <<ed>>, 3, fb)}
       ELSE IF Cardinality(opp) # 2 THEN {Outcome("TypeError", <<>>, 0, fb)}
       ELSE IF edge # 0 THEN {Outcome("face", linked \o <<ed, edge>>, 4, fb)}
       ELSE FaceLevel2(ed, linked, opp, fb)

FaceStep ==
    /\ pc = "faces"
    /\ idx.o <= Len(original_edges)
    /\ \E out \in FaceOutcomes(original_edges[idx.o]) :
          /\ calls' = Append(calls, [ed |-> original_edges[idx.o], kind |-> out.kind,
                                     geom |-> out.geom, sides |-> out.sides,
                                     fallback |-> out.fallback])
          /\ IF out.kind = "face"
             THEN \E made_face \in {ContextualCreate(verts, edges, faces, out.geom)} :
                     /\ edges' = made_face.edges
                     /\ faces' = made_face.faces
             ELSE UNCHANGED <<edges, faces>>
          /\ IF out.kind \in {"TypeError", "IndexError"}
             THEN /\ error' = out.kind
                  /\ pc' = "failed"
                  /\ idx' = idx
             ELSE /\ error' = error
                  /\ idx' = [idx EXCEPT !.o = idx.o + 1]
                  /\ pc' = IF idx.o < Len(original_edges) THEN "faces" ELSE "done"
    /\ UNCHANGED <<prop, verts, sel_faces, skeleton, points, original_edges, skeleton_edges,
                   skeleton_verts, new_verts, vsource, gable, made>>

\* ------------------------------------------------------ create_gable_roof
\* twice the signed area of the x-y projection of a face (the z of its normal,
\* up to a positive factor)
Shoelace(vs, f) ==
    SeqSum([k \in 1..Len(f) |->
               vs[f[k]].x * vs[f[(k % Len(f)) + 1]].y
                   - vs[f[(k % Len(f)) + 1]].x * vs[f[k]].y])
\* 2 * f.calc_area(), for a face in a plane of constant z
Area2(vs, f) == Abs(Shoelace(vs, f))

RECURSIVE SeqOfSet(_)
\* a set as a list, in some order (the order of list(set(...)))
SeqOfSet(S) ==
    IF S = {} THEN <<>> ELSE LET x == CHOOSE y \in S : TRUE IN <<x>> \o SeqOfSet(S \ {x})

\* round(x, 4) for x = n / m grid steps: the nearest multiple of m to n, a tie
\* to the even one
RoundTo(n, m) ==
    LET q == n \div m
        r == n % m
    IN IF 2 * r < m THEN q * m
       ELSE IF 2 * r > m THEN (q + 1) * m
       ELSE IF q % 2 = 0 THEN q * m ELSE (q + 1) * m

\* is_rectangular(faces): the summed face area against |dx| * |dy| of the first
\* and the last vertex in (x, y) order
is_rectangular(vs, fs) ==
    LET fseq == SeqOfSet(fs)
        face_area2 == SeqSum([k \in 1..Len(fseq) |-> Area2(vs, fseq[k])])
        V == UNION {Range(f) : f \in fs}
        _min == CHOOSE v \in V : \A u \in V : ~LexGreater(vs[v], vs[u])
        _max == CHOOSE v \in V : \A u \in V : ~LexGreater(vs[u], vs[v])
        width == Abs(vs[_min].x - vs[_max].x)
        length == Abs(vs[_min].y - vs[_max].y)
        area == width * length
    IN RoundTo(face_area2, 2 * AreaRoundStep) = RoundTo(2 * area, 2 * AreaRoundStep)

\* e.link_faces
EdgeFaces(es, fs, e) == {f \in fs : EdgeVerts(es, e) \in FaceSides(f)}
\* f.edges, in loop order
FaceEdges(es, f) == [k \in 1..Len(f) |-> EdgeBetween(es, f[k], f[(k % Len(f)) + 1])]

\* bmesh.ops.dissolve_faces(bm, faces=faces, use_verts=True): the faces become
\* one face bounded by the edges on one of them only; the edges between them go
DissolveFaces(vs, es, fs, sel) ==
    LET inner == {e \in ValidEdges(es) : Cardinality(EdgeFaces(es, sel, e)) > 1}
        outer == {e \in ValidEdges(es) : Cardinality(EdgeFaces(es, sel, e)) = 1}
        region == LoopsOf(es, outer)
    IN [edges |-> [e \in DOMAIN es |-> [es[e] EXCEPT !.valid = es[e].valid /\ e \notin inner]],
        faces |-> (fs \ sel) \cup region,
        region |-> region]

\* create_gable_roof: the gate, and dissolve_faces for a footprint of several faces
GableGate ==
    /\ pc = "create_roof"
    /\ prop.type = "GABLE"
    /\ IF ~is_rectangular(verts, sel_faces)
       THEN /\ pc' = "done"
            /\ gable' = [gable EXCEPT !.rect = FALSE]
            /\ UNCHANGED <<edges, faces, sel_faces>>
       ELSE /\ pc' = "gable_extrude"
            /\ gable' = [gable EXCEPT !.rect = TRUE]
            /\ IF Cardinality(sel_faces) > 1
               THEN \E d \in {DissolveFaces(verts, edges, faces, sel_faces)} :
                       /\ edges' = d.edges
                       /\ faces' = d.faces
                       /\ sel_faces' = d.region
               ELSE UNCHANGED <<edges, faces, sel_faces>>
    /\ UNCHANGED <<prop, verts, hipvars, error>>

\* the axis coordinate of a vertex
Axis == IF prop.orient = "HORIZONTAL" THEN "x" ELSE "y"
AxisCo(v, axis) == IF axis = "x" THEN v.x ELSE v.y

\* extrude_up_and_delete_faces(bm, faces, extrude_depth): a copy of the face's
\* ring extrude_depth above it, joined to it by side faces; the face and its
\* copy are deleted, their edges stay; the edges of the copy are returned
extrude_up_and_delete_faces(vs, es, fs, face, depth) ==
    LET n == Len(face)
        nv(k) == Len(vs) + k
        nxt(k) == (k % n) + 1
        top == [k \in 1..n |-> [vs[face[k]] EXCEPT !.z = vs[face[k]].z + depth]]
        ring == [k \in 1..n |-> Ed(nv(k), nv(nxt(k)))]
        links == [k \in 1..n |-> Ed(face[k], nv(k))]
    IN [verts |-> vs \o top,
        edges |-> es \o ring \o links,
        faces |-> (fs \ {face})
                    \cup {Canon(<<face[k], face[nxt(k)], nv(nxt(k)), nv(k)>>) : k \in 1..n},
        ret |-> [k \in 1..n |-> Len(es) + k]]

GableExtrude ==
    /\ pc = "gable_extrude"
    /\ \E x \in {extrude_up_and_delete_faces(verts, edges, faces,
                                               CHOOSE f \in sel_faces : TRUE, prop.height)} :
          /\ verts' = x.verts
          /\ edges' = x.edges
          /\ faces' = x.faces
          /\ gable' = [gable EXCEPT !.edges = x.ret]
    /\ pc' = "gable_merge"
    /\ UNCHANGED <<prop, sel_faces, hipvars, error>>

\* merge_verts_along_axis(bm, verts, axis): the vertices go to the middle of
\* their extent along the axis, then remove_doubles with the default distance
DefaultMergeDist == 0
merge_verts_along_axis(vs, es, fs, V, axis) ==
    LET mid == (SetMax({AxisCo(vs[v], axis) : v \in V})
                    + SetMin({AxisCo(vs[v], axis) : v \in V})) \div 2
        moved == [v \in DOMAIN vs |->
                    IF v \notin V THEN vs[v]
                    ELSE IF axis = "x" THEN [vs[v] EXCEPT !.x = mid]
                    ELSE [vs[v] EXCEPT !.y = mid]]
    IN RemoveDoubles(moved, es, fs, DefaultMergeDist)

GableMerge ==
    /\ pc = "gable_merge"
    /\ \E r \in {merge_verts_along_axis(verts, edges, faces,
                                          SeqVertsOfEdges(edges, gable.edges), Axis)} :
          /\ verts' = r.verts
          /\ edges' = r.edges
          /\ faces' = r.faces
    /\ pc' = "gable_roof_faces"
    /\ UNCHANGED <<prop, sel_faces, hipvars, gable, error>>

\* get_highest_z_facing_faces(bm): the faces at the highest vertices whose
\* normal has a z component
get_highest_z_facing_faces(vs, fs) ==
    LET maxz == SetMax({vs[v].z : v \in ValidVerts(vs)})
        top_verts == {v \in ValidVerts(vs) : vs[v].z = maxz}
    IN {f \in fs : Range(f) \cap top_verts # {} /\ Shoelace(vs, f) # 0}

\* bmesh.ops.delete(bm, geom=faces, context="FACES"): the faces go, and with
\* them the edges and vertices no other face or edge uses
DeleteFaces(vs, es, fs, del) ==
    LET fs2 == fs \ del
        es2 == [e \in DOMAIN es |->
                  [es[e] EXCEPT !.valid =
                      es[e].valid /\ (EdgeFaces(es, del, e) = {} \/ EdgeFaces(es, fs2, e) # {})]]
        used == UNION {EdgeVerts(es2, e) : e \in ValidEdges(es2)}
        vs2 == [v \in DOMAIN vs |->
                  [vs[v] EXCEPT !.valid =
                      vs[v].valid /\ (v \in used \/ \A f \in del : v \notin Range(f))]]
    IN [verts |-> vs2, edges |-> es2, faces |-> fs2]

\* the roof faces, their edges between two faces (calc_face_angle(1000.0) is an
\* angle, below pi, when the edge has two faces, and 1000.0 otherwise), and the
\* deletion of the roof faces
GableRoofFaces ==
    /\ pc = "gable_roof_faces"
    /\ \E roof_faces \in {get_highest_z_facing_faces(verts, faces)} :
          /\ \E rseq \in {SeqOfSet(roof_faces)} :
                gable' = [gable EXCEPT !.boundary_edges =
                            SelectSeq(Concat([k \in 1..Len(rseq) |-> FaceEdges(edges, rseq[k])]),
                                      LAMBDA e : Cardinality(EdgeFaces(edges, faces, e)) = 2)]
          /\ \E d \in {DeleteFaces(verts, edges, faces, roof_faces)} :
                /\ verts' = d.verts
                /\ edges' = d.edges
                /\ faces' = d.faces
    /\ pc' = "gable_hangs"
    /\ UNCHANGED <<prop, sel_faces, hipvars, error>>

RECURSIVE Dedup(_)
\* a list without its repeats, in the order of first occurrence
Dedup(seq) ==
    IF seq = <<>> THEN <<>>
    ELSE LET front == Dedup(SubSeq(seq, 1, Len(seq) - 1))
             x == seq[Len(seq)]
         IN IF InSeq(x, front) THEN front ELSE Append(front, x)
IndexOf(seq, x) == CHOOSE k \in DOMAIN seq : seq[k] = x

\* bmesh.ops.extrude_edge_only(bm, edges=eseq): a copy of the edges and of
\* their vertices, joined to the edges by a quad each; the copies are returned
ExtrudeCopies(vs, es, fs, el, vl) ==
    [verts |-> vs \o [k \in 1..Len(vl) |-> vs[vl[k]]],
     edges |-> es \o [k \in 1..Len(el) |->
                        Ed(Len(vs) + IndexOf(vl, es[el[k]].v1),
                           Len(vs) + IndexOf(vl, es[el[k]].v2))]
                  \o [k \in 1..Len(vl) |-> Ed(vl[k], Len(vs) + k)],
     faces |-> fs \cup {Canon(<<es[e].v1, es[e].v2, Len(vs) + IndexOf(vl, es[e].v2),
                                Len(vs) + IndexOf(vl, es[e].v1)>>) : e \in Range(el)},
     new_verts |-> {Len(vs) + k : k \in 1..Len(vl)},
     new_edges |-> [k \in 1..Len(el) |-> Len(es) + k]]
ExtrudeList(vs, es, fs, el) ==
    ExtrudeCopies(vs, es, fs, el,
                  Dedup(Concat([k \in 1..Len(el) |-> <<es[el[k]].v1, es[el[k]].v2>>])))
ExtrudeEdgeOnly(vs, es, fs, eseq) == ExtrudeList(vs, es, fs, Dedup(eseq))

\* bmesh.ops.scale(bm, verts=V, vec=(1 + size, 1 + size, 1))
Scale(vs, V, size) ==
    [v \in DOMAIN vs |->
        IF v \notin V THEN vs[v]
        ELSE [vs[v] EXCEPT !.x = (vs[v].x * (Unit + size)) \div Unit,
                           !.y = (vs[v].y * (Unit + size)) \div Unit]]
\* bmesh.ops.translate(bm, verts=V, vec=(0, 0, dz))
Translate(vs, V, dz) ==
    [v \in DOMAIN vs |-> IF v \in V THEN [vs[v] EXCEPT !.z = vs[v].z + dz] ELSE vs[v]]

\* create_roof_hangs(bm, edges, size): the edges extruded, the copies scaled by
\* 1 + size in x and y, and the lowest vertices of the copies lowered by size
LowerHang(vs, hv, min_loc_z, size) ==
    Translate(vs, {v \in hv : vs[v].z = min_loc_z}, -size)
HangOf(vs, es, fs, hang_edges, hv, size) ==
    [verts |-> LowerHang(vs, hv, SetMin({vs[v].z : v \in hv}), size),
     edges |-> es, faces |-> fs, hang_edges |-> hang_edges]
HangEdges(vs, es, fs, hang_edges, size) ==
    HangOf(vs, es, fs, hang_edges, SeqVertsOfEdges(es, hang_edges), size)
ScaledHang(x, size) ==
    HangEdges(Scale(x.verts, x.new_verts, size), x.edges, x.faces,
              SetToSeq({e \in ValidEdges(x.edges) :
                          EdgeVerts(x.edges, e) \subseteq x.new_verts}),
              size)
create_roof_hangs(vs, es, fs, eseq, size) ==
    ScaledHang(ExtrudeEdgeOnly(vs, es, fs, eseq), size)

\* create_gable_roof, line 79.  An edge between two roof faces was deleted with
\* them and is still in boundary_edges: the operator either refuses the removed
\* element or works on the edges that are left.  Without any edge, min() of
\* nothing raises.
GableHangs ==
    /\ pc = "gable_hangs"
    /\ \E live \in {SelectSeq(gable.boundary_edges, LAMBDA e : edges[e].valid)} :
          \/ /\ live # gable.boundary_edges
             /\ error' = "TypeError"
             /\ pc' = "failed"
             /\ UNCHANGED <<verts, edges, faces, gable>>
          \/ /\ live = <<>>
             /\ error' = "ValueError"
             /\ pc' = "failed"
             /\ UNCHANGED <<verts, edges, faces, gable>>
          \/ /\ live # <<>>
             /\ \E h \in {create_roof_hangs(verts, edges, faces, live, prop.outset)} :
                   /\ verts' = h.verts
                   /\ edges' = h.edges
                   /\ faces' = h.faces
                   /\ gable' = [gable EXCEPT !.hang_edges = h.hang_edges]
             /\ pc' = "gable_fill"
             /\ error' = error
    /\ UNCHANGED <<prop, sel_faces, hipvars>>

RECURSIVE FillAt(_, _, _, _, _)
RECURSIVE FillNext(_, _, _, _)
\* the loop over edge_loc: contextual_create of the valid edges at each place
FillAt(vs, es, fs, groups, k) ==
    IF k > Len(groups) THEN [edges |-> es, faces |-> fs]
    ELSE FillNext(vs, ContextualCreate(vs, es, fs, groups[k]), groups, k + 1)
FillNext(vs, c, groups, k) == FillAt(vs, c.edges, c.faces, groups, k)

\* twice calc_edge_median(e), along c
EdgeMedian2(vs, es, e, c) ==
    IF c = "z" THEN vs[es[e].v1].z + vs[es[e].v2].z
    ELSE AxisCo(vs[es[e].v1], c) + AxisCo(vs[es[e].v2], c)

\* fill_roof_faces_from_hang(bm, edges, roof_thickness, axis): the hang edges
\* extruded upwards, and a face for the copies above the lowest, by their place
\* along the axis
FillGroups(vs, es, fs, valid_edges, edge_loc, axis) ==
    FillAt(vs, es, fs,
           [k \in 1..Len(edge_loc) |->
               SelectSeq(valid_edges, LAMBDA e : EdgeMedian2(vs, es, e, axis) = edge_loc[k])],
           1)
FillValid(vs, es, fs, valid_edges, axis) ==
    FillGroups(vs, es, fs, valid_edges,
               SetToSeq({EdgeMedian2(vs, es, valid_edges[k], axis) : k \in DOMAIN valid_edges}),
               axis)
FillAbove(vs, es, fs, new_edges, minz, axis) ==
    FillValid(vs, es, fs,
              SelectSeq(new_edges, LAMBDA e : EdgeMedian2(vs, es, e, "z") # 2 * minz), axis)
FillRaised(vs, es, fs, new_edges, axis) ==
    [verts |-> vs] @@
    FillAbove(vs, es, fs, new_edges,
              SetMin({vs[v].z : v \in SeqVertsOfEdges(es, new_edges)}), axis)
FillExtruded(x, roof_thickness, axis) ==
    FillRaised(Translate(x.verts, x.new_verts, roof_thickness), x.edges, x.faces,
               x.new_edges, axis)
fill_roof_faces_from_hang(vs, es, fs, eseq, roof_thickness, axis) ==
    FillExtruded(ExtrudeEdgeOnly(vs, es, fs, eseq), roof_thickness, axis)

GableFill ==
    /\ pc = "gable_fill"
    /\ \E r \in {fill_roof_faces_from_hang(verts, edges, faces, gable.hang_edges,
                                             prop.thickness, Axis)} :
          /\ verts' = r.verts
          /\ edges' = r.edges
          /\ faces' = r.faces
    /\ pc' = "done"
    /\ UNCHANGED <<prop, sel_faces, hipvars, gable, error>>

Next == CreateHipRoof \/ ArcSource \/ ArcSink \/ ArcNext \/ RidgeMerge \/ JoinStep
            \/ JoinMerge \/ FaceStep \/ GableGate
            \/ GableExtrude \/ GableMerge \/ GableRoofFaces
            \/ GableHangs \/ GableFill

Spec == Init /\ [][Next]_vars

\* ================================================================ claims
\* the footprint: its vertices are 1..NRing, the wall ring below is next
NRing == Len(ShapePts(prop.shape))
IsHip == prop.type = "HIP"
\* the height the footprint lies at
FootprintLevel == verts[1].z
IsGable == prop.type = "GABLE"
FootprintVerts == 1..NRing
\* the faces of the roof: all but the walls
RoofFaces == faces \ WallFaces(prop.shape)
\* the vertices made on top of the footprint and the walls
RidgeVertices == {v \in ValidVerts(verts) : v > 2 * NRing}
Covered(ed) == \E f \in RoofFaces : EdgeVerts(edges, ed) \in FaceSides(f)
HipVertsDone == IsHip /\ pc \in {"faces", "done"}
\* square, rectangle, L and T, also with more vertices on a side
SimpleFootprint ==
    \/ prop.shape.kind \in {"rect", "L"}
    \/ prop.shape.kind = "comb" /\ prop.shape.n = 1

\* C1 (as claimed): after hip synthesis on a simple footprint every Original
\* Edge borders at least one roof face, the skipped ones too
C1_EveryOriginalEdgeCovered ==
    (IsHip /\ pc = "done" /\ SimpleFootprint)
        => \A k \in DOMAIN original_edges : Covered(original_edges[k])

\* C2 (amended): the highest ridge vertex is the requested height above the
\* footprint, and every ridge vertex is above the footprint and not above it
C2_ApexAtHeightOthersWithin ==
    HipVertsDone =>
        /\ RidgeVertices # {}
        /\ SetMax({verts[v].z : v \in RidgeVertices}) - FootprintLevel = prop.height
        /\ \A v \in RidgeVertices :
              FootprintLevel < verts[v].z /\ verts[v].z <= FootprintLevel + prop.height
\* a roof with two ridge vertices at the apex
C2_TwoAtApex ==
    /\ IsHip /\ pc = "done"
    /\ \E u, v \in RidgeVertices :
          u # v /\ verts[u].z = FootprintLevel + prop.height /\ verts[v].z = verts[u].z
\* C2 (as claimed): every ridge vertex but the highest is strictly between the
\* footprint and the apex
C2_OthersStrictlyBelowApex ==
    HipVertsDone =>
        \E top \in RidgeVertices :
            /\ verts[top].z - FootprintLevel = prop.height
            /\ \A v \in RidgeVertices \ {top} :
                  FootprintLevel < verts[v].z /\ verts[v].z < verts[top].z

\* the mesh create_roof was called on
InitFaces == TopFaces(prop.shape) \cup WallFaces(prop.shape)
MeshUnchanged ==
    /\ verts = InitVerts(prop.shape, prop.thickness)
    /\ edges = InitEdges(prop.shape)
    /\ faces = InitFaces

\* an outline is a rectangle: four corners, all of them right angles
Corners(pts) ==
    LET n == Len(pts)
        prv(k) == pts[((k + n - 2) % n) + 1]
        nxt(k) == pts[(k % n) + 1]
        turn(k) == (pts[k][1] - prv(k)[1]) * (nxt(k)[2] - pts[k][2])
                       - (pts[k][2] - prv(k)[2]) * (nxt(k)[1] - pts[k][1])
    IN SelectSeq(pts, LAMBDA q : \E k \in 1..n : pts[k] = q /\ turn(k) # 0)
IsRectangle(pts) ==
    LET c == Corners(pts)
        at(k) == c[((k - 1) % 4) + 1]
    IN /\ Len(c) = 4
       /\ \A k \in 1..4 :
             (at(k + 1)[1] - at(k)[1]) * (at(k + 2)[1] - at(k + 1)[1])
                 + (at(k + 1)[2] - at(k)[2]) * (at(k + 2)[2] - at(k + 1)[2]) = 0

\* C3 (as claimed): gable synthesis on a footprint that is not a rectangle
\* leaves the mesh as it was and raises no error
C3_GableNoOpOnNonRectangle ==
    (IsGable /\ pc # "create_roof" /\ ~IsRectangle(ShapePts(prop.shape)))
        => (MeshUnchanged /\ error = "none")

\* the area of the axis-aligned bounding box of the footprint
BBoxArea ==
    LET xs == {ShapePts(prop.shape)[k][1] : k \in 1..NRing}
        ys == {ShapePts(prop.shape)[k][2] : k \in 1..NRing}
    IN (SetMax(xs) - SetMin(xs)) * (SetMax(ys) - SetMin(ys))
\* twice the summed area of the footprint faces
FootprintArea2 ==
    LET fseq == SeqOfSet(TopFaces(prop.shape))
    IN SeqSum([k \in 1..Len(fseq) |->
                  Abs(Shoelace(InitVerts(prop.shape, prop.thickness), fseq[k]))])

\* C7 (as claimed): is_rectangular is true exactly when the summed face area is
\* the area of the bounding box, both rounded to 4 decimals
C7_IsRectangularIsBBoxTest ==
    (IsGable /\ pc # "create_roof")
        => (gable.rect <=> RoundTo(FootprintArea2, 2 * AreaRoundStep)
                             = RoundTo(2 * BBoxArea, 2 * AreaRoundStep))

\* the skeleton is one arc whose sinks are exactly the vertices of the footprint
SingleArcOverFootprint ==
    /\ Len(skeleton) = 1
    /\ Range(skeleton[1].sinks) = Range(points)
    /\ Len(points) = NRing
\* the vertices at a place (x, y)
VertsAt(loc) == {v \in ValidVerts(verts) : verts[v].x = loc[1] /\ verts[v].y = loc[2]}

\* C4: a footprint whose skeleton is a single arc down to all its vertices gets
\* one ridge vertex, at the source and the requested height above the footprint,
\* and one triangle per Original Edge, over that edge and the two skeleton edges
\* from its ends to the ridge vertex
C4_SingleArcOneRidgeVertexTriangles ==
    (IsHip /\ pc = "done" /\ SingleArcOverFootprint) =>
        /\ Cardinality(RidgeVertices) = 1
        /\ \A r \in RidgeVertices :
              /\ verts[r].x = skeleton[1].source[1]
              /\ verts[r].y = skeleton[1].source[2]
              /\ verts[r].z = FootprintLevel + prop.height
              /\ Cardinality(RoofFaces) = Len(original_edges)
              /\ \A k \in DOMAIN original_edges :
                    LET e == original_edges[k]
                    IN /\ {f \in RoofFaces : EdgeVerts(edges, e) \in FaceSides(f)}
                              = {Canon(<<edges[e].v1, edges[e].v2, r>>)}
                       /\ EdgeBetween(edges, edges[e].v1, r) \in Range(skeleton_edges)
                       /\ EdgeBetween(edges, edges[e].v2, r) \in Range(skeleton_edges)
\* the square, reconstructed
C4_SquareDone ==
    /\ IsHip /\ pc = "done" /\ SingleArcOverFootprint
    /\ prop.shape.kind = "rect" /\ prop.shape.w = prop.shape.l
    /\ Cardinality(RoofFaces) = 4

\* the skeleton nodes met so far in the arc loop
NodesSeen ==
    {skeleton[k].source : k \in 1..Min2(idx.a, Len(skeleton))}
    \cup UNION {Range(skeleton[k].sinks) : k \in 1..(Min2(idx.a, Len(skeleton)) - 1)}
    \cup {skeleton[idx.a].sinks[j] : j \in 1..(idx.s - 1)}
InArcLoop == IsHip /\ pc \in {"arc_sink", "ridge_merge"}

\* C5: in ridge vertex synthesis a node at the place of a vertex of the mesh
\* makes no vertex, each node makes at most one, every skeleton edge ends at the
\* one vertex at each of its nodes, and afterwards no two vertices share a place
C5_RidgeVerticesDeduplicated ==
    /\ InArcLoop =>
          /\ \A i, j \in DOMAIN made : made[i].loc = made[j].loc => i = j
          /\ \A i \in DOMAIN made :
                \A v \in 1..(2 * NRing) :
                    ~(verts[v].x = made[i].loc[1] /\ verts[v].y = made[i].loc[2])
          /\ \A node \in NodesSeen :
                Cardinality({v \in VertsAt(node) : v > 2 * NRing})
                    = IF \E v \in FootprintVerts : v \in VertsAt(node) THEN 0 ELSE 1
          /\ \A k \in DOMAIN skeleton_edges :
                \E a \in DOMAIN skeleton :
                    \E sink \in Range(skeleton[a].sinks) :
                        \E u \in VertsAt(skeleton[a].source), v \in VertsAt(sink) :
                            /\ EdgeVerts(edges, skeleton_edges[k]) = {u, v}
                            /\ \A t \in VertsAt(skeleton[a].source) : verts[t].z <= verts[u].z
                            /\ \A t \in VertsAt(sink) : verts[t].z <= verts[v].z
    /\ HipVertsDone =>
          \A u, v \in ValidVerts(verts) :
              (verts[u].x = verts[v].x /\ verts[u].y = verts[v].y /\ verts[u].z = verts[v].z)
                  => u = v
\* a node that is the source of one arc and a sink of another has made one vertex
C5_SharedNodeOneVertex ==
    /\ IsHip /\ pc = "ridge_merge"
    /\ \E a, b \in DOMAIN skeleton :
          /\ a # b
          /\ skeleton[a].source \in Range(skeleton[b].sinks)
          /\ Cardinality({i \in DOMAIN made : made[i].loc = skeleton[a].source}) = 1
    /\ \E a \in DOMAIN skeleton :
          \E sink \in Range(skeleton[a].sinks) :
              /\ \E v \in FootprintVerts : v \in VertsAt(sink)
              /\ \A i \in DOMAIN made : made[i].loc # sink

\* C6 (as claimed): face reconstruction raises no error: an Original Edge that
\* cannot be resolved gets no face and the loop goes on to the next
C6_UnresolvedEdgeRaisesNoError ==
    IsHip =>
        /\ \A k \in DOMAIN calls : calls[k].kind \in {"skip", "face", "none"}
        /\ (calls # <<>> => pc \in {"faces", "done"})

\* the height of a node by the rule: its own arc's as a source, the least of
\* the arcs that list it when it is only a sink
NodeHeight(node) ==
    IF \E k \in DOMAIN skeleton : skeleton[k].source = node
    THEN skeleton[CHOOSE k \in DOMAIN skeleton : skeleton[k].source = node].height
    ELSE SetMin({skeleton[k].height :
                   k \in {j \in DOMAIN skeleton : node \in Range(skeleton[j].sinks)}})

\* C8 (as claimed): a made ridge vertex is at footprint_z + scale * h, h by the
\* rule above, whatever the order of the arcs
C8_RidgeHeightByRule ==
    InArcLoop =>
        \A i \in DOMAIN made :
            verts[made[i].v].z
                = FootprintLevel + (prop.height * NodeHeight(made[i].loc)) \div MaxArcHeight(skeleton)

\* C9 (as claimed): every face-creation call passes an edge set that holds the
\* Original Edge and is one closed cycle, in the fallback too
C9_EveryCallClosedCycle ==
    IsHip =>
        \A k \in DOMAIN calls :
            calls[k].kind = "face" =>
                /\ calls[k].ed \in Range(calls[k].geom)
                /\ IsClosedLoop(edges, Range(calls[k].geom))

\* v is on the segment of edge e, in the x-y plane, away from its ends
InsideEdge2D(v, e) ==
    /\ OnSegment2D(verts[v], verts[edges[e].v1], verts[edges[e].v2])
    /\ \A w \in EdgeVerts(edges, e) :
          ~(verts[w].x = verts[v].x /\ verts[w].y = verts[v].y)

\* C10 (as claimed): after crossing resolution no ridge vertex is inside a
\* skeleton edge it is no end of
C10_NoRidgeVertexInsideSkeletonEdge ==
    HipVertsDone =>
        \A v \in RidgeVertices :
            \A e \in Range(skeleton_edges) :
                (edges[e].valid /\ v \notin EdgeVerts(edges, e)) => ~InsideEdge2D(v, e)

\* the footprint face create_hip_roof sorts, and where a vertex is in its loop
SortedFace == CHOOSE f \in sel_faces : TRUE
LoopPos(v) == CHOOSE k \in 1..Len(SortedFace) : SortedFace[k] = v
\* the vertices of the face at the k-th entry of the sorted list, as points
\* records it
SortedAt(k) ==
    {v \in Range(SortedFace) : verts[v].x = points[k][1] /\ verts[v].y = points[k][2]}
SortRan == IsHip /\ pc # "create_roof"

====
